---- MODULE Spec2Model ----
(***************************************************************************)
(* A model of us_presidents.py: the text extractors, the row cleaner, the  *)
(* list codec, the CSV save/load pair and fetch.                           *)
(*                                                                         *)
(* A Python str is a sequence of one-character strings; the two non-ASCII  *)
(* characters the program looks for have names (EnDash, Nbsp).  A Python   *)
(* value is a tagged record: NA (pd.NA, NaN, NaT), Str, Num, Date, List,   *)
(* Series, DataFrame.  A raised exception is the value Raised.             *)
(***************************************************************************)
EXTENDS Integers, Sequences, FiniteSets, TLC

VARIABLES
    pc,       \* position of the run
    arg,      \* the argument handed to the function under study
    ret,      \* what it returned
    raw,      \* raw_df: the scraped row-set
    frozen,   \* the file behind FROZEN_CSV_URL
    df,       \* the table held by the caller
    file,     \* the CSV file written by the last save_csv
    prev,     \* the table loaded one cycle earlier
    update,   \* fetch(update=...)
    save,     \* fetch(save=...)
    trace     \* the calls fetch has made, in order

vars == <<pc, arg, ret, raw, frozen, df, file, prev, update, save, trace>>

----------------------------------------------------------------------------
(* Bounds *)

MaxPartyWords == 3
MaxVPParts == 3
MaxElectionParts == 3
MaxListLen == 3
MaxRows == 1
MaxCycles == 2

----------------------------------------------------------------------------
(* Characters *)

EnDash == "en-dash"
Nbsp == "nbsp"

LowerCase == <<"a", "b", "c", "d", "e", "f", "g", "h", "i", "j", "k", "l", "m",
               "n", "o", "p", "q", "r", "s", "t", "u", "v", "w", "x", "y", "z">>
UpperCase == <<"A", "B", "C", "D", "E", "F", "G", "H", "I", "J", "K", "L", "M",
               "N", "O", "P", "Q", "R", "S", "T", "U", "V", "W", "X", "Y", "Z">>
Digits == <<"0", "1", "2", "3", "4", "5", "6", "7", "8", "9">>

Range(s) == {s[i] : i \in 1..Len(s)}
IndexOf(c, s) == CHOOSE i \in 1..Len(s) : s[i] = c

IsLower(c) == c \in Range(LowerCase)
IsUpper(c) == c \in Range(UpperCase)
IsCased(c) == IsLower(c) \/ IsUpper(c)
IsDigit(c) == c \in Range(Digits)
\* str.isspace / regex \s over the characters of the model
IsSpace(c) == c \in {" ", Nbsp}

ToUpper(c) == IF IsLower(c) THEN UpperCase[IndexOf(c, LowerCase)] ELSE c
ToLower(c) == IF IsUpper(c) THEN LowerCase[IndexOf(c, UpperCase)] ELSE c
DigitVal(c) == IndexOf(c, Digits) - 1

----------------------------------------------------------------------------
(* Python values *)

NA == [t |-> "NA"]
Str(s) == [t |-> "str", v |-> s]
Num(n) == [t |-> "int", v |-> n]
List(l) == [t |-> "list", v |-> l]
Date(m, d, y) == [t |-> "date", month |-> m, day |-> d, year |-> y]
Series(l) == [t |-> "Series", v |-> l]
DataFrame(rows) == [t |-> "DataFrame", rows |-> rows]
CsvFile(rows) == [t |-> "file", rows |-> rows]
Raised == [t |-> "raise"]
None == [t |-> "None"]

IsStr(x) == x.t = "str"
IsList(x) == x.t = "list"
\* pd.isna / pd.notna on a scalar
IsNA(x) == x.t = "NA"

----------------------------------------------------------------------------
(* str methods *)

RECURSIVE LStrip(_)
LStrip(s) == IF s # <<>> /\ IsSpace(Head(s)) THEN LStrip(Tail(s)) ELSE s

RECURSIVE RStrip(_)
RStrip(s) ==
    IF s # <<>> /\ IsSpace(s[Len(s)]) THEN RStrip(SubSeq(s, 1, Len(s) - 1)) ELSE s

Strip(s) == RStrip(LStrip(s))

\* str.title(): a cased character is upper-cased after an uncased one (or at
\* the start) and lower-cased after a cased one.
Title(s) ==
    [i \in 1..Len(s) |->
        IF i > 1 /\ IsCased(s[i - 1]) THEN ToLower(s[i]) ELSE ToUpper(s[i])]

\* str.split(): the maximal runs of non-whitespace characters
RECURSIVE SplitFrom(_, _, _)
SplitFrom(s, i, cur) ==
    IF i > Len(s) THEN (IF cur = <<>> THEN <<>> ELSE <<cur>>)
    ELSE IF IsSpace(s[i])
         THEN (IF cur = <<>> THEN <<>> ELSE <<cur>>) \o SplitFrom(s, i + 1, <<>>)
         ELSE SplitFrom(s, i + 1, Append(cur, s[i]))
Split(s) == SplitFrom(s, 1, <<>>)

\* str.split(sep) for a one-character separator: the pieces between the
\* occurrences, empty pieces kept
RECURSIVE SplitOnFrom(_, _, _, _)
SplitOnFrom(s, sep, i, cur) ==
    IF i > Len(s) THEN <<cur>>
    ELSE IF s[i] = sep
         THEN <<cur>> \o SplitOnFrom(s, sep, i + 1, <<>>)
         ELSE SplitOnFrom(s, sep, i + 1, Append(cur, s[i]))
SplitOn(s, sep) == SplitOnFrom(s, sep, 1, <<>>)

\* ' | '.join(parts) and friends
RECURSIVE Join(_, _)
Join(sep, parts) ==
    IF parts = <<>> THEN <<>>
    ELSE IF Len(parts) = 1 THEN parts[1]
    ELSE parts[1] \o sep \o Join(sep, Tail(parts))

\* the end of the whitespace run that starts at i (i itself when there is none)
RECURSIVE SkipSpace(_, _)
SkipSpace(s, i) ==
    IF i <= Len(s) /\ IsSpace(s[i]) THEN SkipSpace(s, i + 1) ELSE i

\* re.sub(r'\s+', ' ', s)
RECURSIVE CollapseFrom(_, _)
CollapseFrom(s, i) ==
    IF i > Len(s) THEN <<>>
    ELSE IF IsSpace(s[i]) THEN <<" ">> \o CollapseFrom(s, SkipSpace(s, i))
    ELSE <<s[i]>> \o CollapseFrom(s, i + 1)
CollapseSpace(s) == CollapseFrom(s, 1)

\* re.sub(r'\s*-\s*', '-', s)
RECURSIVE HyphenFrom(_, _)
HyphenFrom(s, i) ==
    IF i > Len(s) THEN <<>>
    ELSE LET j == SkipSpace(s, i) IN
         IF j <= Len(s) /\ s[j] = "-"
         THEN <<"-">> \o HyphenFrom(s, SkipSpace(s, j + 1))
         ELSE <<s[i]>> \o HyphenFrom(s, i + 1)
TightenHyphens(s) == HyphenFrom(s, 1)

----------------------------------------------------------------------------
(* Cleaning helpers *)

RECOGNIZED_PARTIES == {
    <<"U", "n", "a", "f", "f", "i", "l", "i", "a", "t", "e", "d">>,
    <<"F", "e", "d", "e", "r", "a", "l", "i", "s", "t">>,
    <<"D", "e", "m", "o", "c", "r", "a", "t", "i", "c", "-",
      "R", "e", "p", "u", "b", "l", "i", "c", "a", "n">>,
    <<"N", "a", "t", "i", "o", "n", "a", "l", " ",
      "R", "e", "p", "u", "b", "l", "i", "c", "a", "n">>,
    <<"D", "e", "m", "o", "c", "r", "a", "t", "i", "c">>,
    <<"W", "h", "i", "g">>,
    <<"N", "a", "t", "i", "o", "n", "a", "l", " ", "U", "n", "i", "o", "n">>,
    <<"R", "e", "p", "u", "b", "l", "i", "c", "a", "n">> }

\* a variant that takes any non-empty accumulator for a party
IsRecognized_AnyToken(current) == current # <<>>

\* the test of lines 73 and 76
IsRecognized(current) == current \in RECOGNIZED_PARTIES

\* the loop of lines 64-77 over parts[i..]; `current` is the accumulator
RECURSIVE PartiesLoop(_, _, _)
PartiesLoop(parts, i, current) ==
    IF i > Len(parts)
    THEN (IF IsRecognized(current) THEN <<Str(current)>> ELSE <<>>)
    ELSE LET built == IF current # <<>> THEN current \o <<" ">> \o parts[i]
                      ELSE parts[i]
         IN  IF IsRecognized(built)
             THEN <<Str(built)>> \o PartiesLoop(parts, i + 1, <<>>)
             ELSE PartiesLoop(parts, i + 1, built)

extract_parties(text) ==
    IF ~IsStr(text) THEN text
    ELSE LET t1 == TightenHyphens(text.v)
             t2 == Title(Strip(CollapseSpace(t1)))
         IN  List(PartiesLoop(Split(t2), 1, <<>>))

\* remove_footnotes: re.sub(r'\[.*?\]', '', text).strip()
RECURSIVE CloseBracket(_, _)
CloseBracket(s, i) ==
    IF i > Len(s) THEN 0 ELSE IF s[i] = "]" THEN i ELSE CloseBracket(s, i + 1)

RECURSIVE FootnotesFrom(_, _)
FootnotesFrom(s, i) ==
    IF i > Len(s) THEN <<>>
    ELSE IF s[i] = "[" /\ CloseBracket(s, i + 1) # 0
         THEN FootnotesFrom(s, CloseBracket(s, i + 1) + 1)
         ELSE <<s[i]>> \o FootnotesFrom(s, i + 1)

remove_footnotes(text) ==
    IF ~IsStr(text) THEN text ELSE Str(Strip(FootnotesFrom(text.v, 1)))

\* s[i..] starts with lit, compared case-insensitively (re.IGNORECASE)
StartsWithCI(s, i, lit) ==
    /\ i + Len(lit) - 1 <= Len(s)
    /\ \A k \in 1..Len(lit) : ToLower(s[i + k - 1]) = ToLower(lit[k])

StartsWith(s, i, lit) ==
    /\ i + Len(lit) - 1 <= Len(s)
    /\ \A k \in 1..Len(lit) : s[i + k - 1] = lit[k]

\* \d{4} at s[i..i+3]
FourDigits(s, i) == i + 3 <= Len(s) /\ \A k \in 0..3 : IsDigit(s[i + k])

VacantThroughout ==
    <<"V", "a", "c", "a", "n", "t", " ", "t", "h", "r", "o", "u", "g", "h",
      "o", "u", "t", " ", "p", "r", "e", "s", "i", "d", "e", "n", "c", "y">>
Vacant == <<"V", "a", "c", "a", "n", "t">>

\* the first k >= i with \d{4} at k, or 0: where the lazy .*? stops
RECURSIVE FirstFourDigits(_, _)
FirstFourDigits(s, i) ==
    IF i + 3 > Len(s) THEN 0
    ELSE IF FourDigits(s, i) THEN i ELSE FirstFourDigits(s, i + 1)

\* The last index of a match of
\*   (Vacant throughout presidency|Vacant.*?\d{4})
\* that starts at i, or 0 when there is none; the first alternative wins.
VacancyEnd(s, i) ==
    IF StartsWithCI(s, i, VacantThroughout) THEN i + Len(VacantThroughout) - 1
    ELSE IF StartsWithCI(s, i, Vacant)
                /\ FirstFourDigits(s, i + Len(Vacant)) # 0
         THEN FirstFourDigits(s, i + Len(Vacant)) + 3
         ELSE 0

\* re.split with one capturing group: text, match, text, match, ..., text
RECURSIVE VacancySplit(_, _, _)
VacancySplit(s, i, cur) ==
    IF i > Len(s) THEN <<cur>>
    ELSE IF VacancyEnd(s, i) # 0
         THEN <<cur, SubSeq(s, i, VacancyEnd(s, i))>>
                  \o VacancySplit(s, VacancyEnd(s, i) + 1, <<>>)
         ELSE VacancySplit(s, i + 1, Append(cur, s[i]))

ReplaceNbsp(s) == [i \in 1..Len(s) |-> IF s[i] = Nbsp THEN " " ELSE s[i]]

\* the filter of line 93: `if token`
KeepToken(token) == token # <<>>

extract_vice_presidents(text) ==
    IF ~IsStr(text) THEN text
    ELSE LET t1 == Strip(CollapseSpace(ReplaceNbsp(text.v)))
             split_text == VacancySplit(t1, 1, <<>>)
             kept == SelectSeq(split_text, KeepToken)
         IN  List([i \in 1..Len(kept) |-> Str(Strip(kept[i]))])

\* the value of a run of decimal digits
RECURSIVE DigitsValue(_)
DigitsValue(s) ==
    IF s = <<>> THEN 0
    ELSE 10 * DigitsValue(SubSeq(s, 1, Len(s) - 1)) + DigitVal(s[Len(s)])

AllDigits(s) == s # <<>> /\ \A i \in 1..Len(s) : IsDigit(s[i])

\* int(s) for a str without whitespace: an optional sign and decimal digits;
\* NA stands for the ValueError
ParseInt(s) ==
    IF AllDigits(s) THEN Num(DigitsValue(s))
    ELSE IF s # <<>> /\ s[1] = "-" /\ AllDigits(Tail(s))
         THEN Num(0 - DigitsValue(Tail(s)))
    ELSE IF s # <<>> /\ s[1] = "+" /\ AllDigits(Tail(s))
         THEN Num(DigitsValue(Tail(s)))
    ELSE NA

\* a variant without the year-range branch of lines 101-102
ElectionYear_NoRange(s) == ParseInt(s)

\* lines 101-106 for one token
ElectionYear(s) ==
    IF EnDash \in Range(s) THEN ParseInt(SplitOn(s, EnDash)[1]) ELSE ParseInt(s)

extract_election_dates(text) ==
    IF ~IsStr(text) THEN text
    ELSE LET toks == Split(text.v)
         IN  List([i \in 1..Len(toks) |-> ElectionYear(toks[i])])

\* where the tail of the pattern of line 114,
\*   \s*\((?:(\d{4})–(\d{4})|b\. (\d{4}))\)
\* matches from k: the position of its "(" and which alternative, or none
NameTail(s, k) ==
    LET j == SkipSpace(s, k) IN
    IF j <= Len(s) /\ s[j] = "(" /\ FourDigits(s, j + 1)
          /\ j + 10 <= Len(s) /\ s[j + 5] = EnDash /\ FourDigits(s, j + 6)
          /\ s[j + 10] = ")"
    THEN [ok |-> TRUE, birth |-> Str(SubSeq(s, j + 1, j + 4)),
          death |-> Str(SubSeq(s, j + 6, j + 9))]
    ELSE IF j <= Len(s) /\ s[j] = "(" /\ StartsWith(s, j + 1, <<"b", ".", " ">>)
          /\ FourDigits(s, j + 4) /\ j + 8 <= Len(s) /\ s[j + 8] = ")"
    THEN [ok |-> TRUE, birth |-> Str(SubSeq(s, j + 4, j + 7)), death |-> NA]
    ELSE [ok |-> FALSE]

\* the first k from which the tail matches, 0 when there is none: the lazy
\* (.*?) takes s[1..k-1]
RECURSIVE NameEnd(_, _)
NameEnd(s, k) ==
    IF k > Len(s) + 1 THEN 0
    ELSE IF NameTail(s, k).ok THEN k ELSE NameEnd(s, k + 1)

\* A result is the Series [name, birth, death]; Raised is the TypeError re.match
\* raises for an argument that is not a str.
split_name_birth_death(text) ==
    IF ~IsStr(text) THEN Raised
    ELSE LET k == NameEnd(text.v, 1) IN
         IF k = 0 THEN Series(<<NA, NA, NA>>)
         ELSE Series(<<Str(SubSeq(text.v, 1, k - 1)),
                       NameTail(text.v, k).birth, NameTail(text.v, k).death>>)

\* re.split(r'\s*–\s*', text): the pieces between the en dashes, without
\* the whitespace next to a dash
DashSplit(s) ==
    LET pieces == SplitOn(s, EnDash) IN
    [i \in 1..Len(pieces) |->
        LET a == IF i > 1 THEN LStrip(pieces[i]) ELSE pieces[i]
        IN  IF i < Len(pieces) THEN RStrip(a) ELSE a]

Incumbent == <<"I", "n", "c", "u", "m", "b", "e", "n", "t">>

\* A result is the Series [term_start, term_end]; Raised is the TypeError re.split
\* raises for an argument that is not a str.
split_term(text) ==
    IF ~IsStr(text) THEN Raised
    ELSE LET terms == DashSplit(text.v) IN
         IF Len(terms) = 2
         THEN LET start == Strip(terms[1])
                  end == Strip(terms[2])
              IN  Series(<<Str(start), IF end = Incumbent THEN NA ELSE Str(end)>>)
         ELSE Series(<<NA, NA>>)

----------------------------------------------------------------------------
(* pandas conversions *)

MonthNames == <<
    <<"J", "a", "n", "u", "a", "r", "y">>,
    <<"F", "e", "b", "r", "u", "a", "r", "y">>,
    <<"M", "a", "r", "c", "h">>,
    <<"A", "p", "r", "i", "l">>,
    <<"M", "a", "y">>,
    <<"J", "u", "n", "e">>,
    <<"J", "u", "l", "y">>,
    <<"A", "u", "g", "u", "s", "t">>,
    <<"S", "e", "p", "t", "e", "m", "b", "e", "r">>,
    <<"O", "c", "t", "o", "b", "e", "r">>,
    <<"N", "o", "v", "e", "m", "b", "e", "r">>,
    <<"D", "e", "c", "e", "m", "b", "e", "r">> >>

IsLeap(y) == (y % 4 = 0 /\ y % 100 # 0) \/ y % 400 = 0
DaysIn(m, y) ==
    IF m = 2 THEN (IF IsLeap(y) THEN 29 ELSE 28)
    ELSE IF m \in {4, 6, 9, 11} THEN 30 ELSE 31

\* the years that lie wholly inside the range of a pandas Timestamp
MinYear == 1678
MaxYear == 2261

\* the date "<Month name> <day>, <year>" spelled by s with month m, or NA
DateWithMonth(s, m) ==
    LET rest == SubSeq(s, Len(MonthNames[m]) + 1, Len(s))
        parts == SplitOn(rest, ",")
    IN  IF /\ StartsWith(s, 1, MonthNames[m])
           /\ Len(parts) = 2
           /\ Len(parts[1]) \in 2..3 /\ parts[1][1] = " "
           /\ AllDigits(Tail(parts[1]))
           /\ Len(parts[2]) = 5 /\ parts[2][1] = " "
           /\ AllDigits(Tail(parts[2]))
        THEN LET d == DigitsValue(Tail(parts[1]))
                 y == DigitsValue(Tail(parts[2]))
             IN  IF d \in 1..DaysIn(m, y) /\ y \in MinYear..MaxYear
                 THEN Date(m, d, y) ELSE NA
        ELSE NA

\* pd.to_datetime(x, errors='coerce') for one cell: a text of the shape
\* save_csv writes becomes the date, anything else of the model NaT
to_datetime(x) ==
    IF ~IsStr(x) THEN NA
    ELSE IF \E m \in 1..12 : DateWithMonth(x.v, m) # NA
         THEN DateWithMonth(x.v, CHOOSE m \in 1..12 : DateWithMonth(x.v, m) # NA)
         ELSE NA

\* str(n) for an int
RECURSIVE NatToStr(_)
NatToStr(n) ==
    IF n < 10 THEN <<Digits[n + 1]>>
    ELSE NatToStr(n \div 10) \o <<Digits[(n % 10) + 1]>>
IntToStr(n) == IF n < 0 THEN <<"-">> \o NatToStr(0 - n) ELSE NatToStr(n)

\* astype('Int64') for one cell
to_Int64(x) ==
    IF IsNA(x) THEN NA
    ELSE IF IsStr(x) THEN ParseInt(x.v)
    ELSE x

\* astype('string') for one cell
to_string(x) ==
    IF IsNA(x) THEN NA
    ELSE IF x.t = "int" THEN Str(IntToStr(x.v))
    ELSE x

----------------------------------------------------------------------------
(* Clean raw data *)

\* A raw row is the eight cells of the scraped table, in page order:
\*   number, portrait, name/birth/death, term, party marker, party,
\*   election, vice president.

\* lines 148-161 for one row; Raised when a splitter raised
CleanRow(r) ==
    LET name_birth_death == remove_footnotes(r[3])
        term == remove_footnotes(r[4])
        party == extract_parties(remove_footnotes(r[6]))
        vice_president == extract_vice_presidents(remove_footnotes(r[8]))
        election == extract_election_dates(r[7])
        nbd == split_name_birth_death(name_birth_death)
        se == split_term(term)
    IN  IF nbd = Raised \/ se = Raised THEN Raised
        ELSE [number |-> r[1],
              name |-> to_string(nbd.v[1]),
              birth |-> to_Int64(nbd.v[2]),
              death |-> to_Int64(nbd.v[3]),
              term_start |-> to_datetime(se.v[1]),
              term_end |-> to_datetime(se.v[2]),
              party |-> party,
              election |-> election,
              vice_president |-> vice_president]

\* raw_df is the sequence of the raw rows; the result is the DataFrame of
\* the cleaned rows, or Raised
clean_presidents_df(raw_df) ==
    IF \E i \in 1..Len(raw_df) : CleanRow(raw_df[i]) = Raised THEN Raised
    ELSE DataFrame([i \in 1..Len(raw_df) |-> CleanRow(raw_df[i])])

----------------------------------------------------------------------------
(* Save and load CSV *)

NA_REPR == <<"N", "A">>

\* `not x`; the absent value of a cleaned table is NaN, which is true
Falsy(x) ==
    \/ IsList(x) /\ x.v = <<>>
    \/ IsStr(x) /\ x.v = <<>>
    \/ x.t = "int" /\ x.v = 0

\* str(item)
ToStr(x) == IF x.t = "int" THEN IntToStr(x.v) ELSE x.v

\* 'NA' if pd.isna(item) else str(item)
ItemText(item) == IF IsNA(item) THEN NA_REPR ELSE ToStr(item)

list_to_pipe_string(lst) ==
    IF Falsy(lst) THEN NA
    ELSE IF IsList(lst)
         THEN Str(Join(<<" ", "|", " ">>,
                       [i \in 1..Len(lst.v) |-> ItemText(lst.v[i])]))
         ELSE lst

\* pd.NA if item.strip() == 'NA' else item.strip()
PipeItem(item) == IF Strip(item) = NA_REPR THEN NA ELSE Str(Strip(item))

pipe_string_to_list(s) ==
    IF IsNA(s) THEN List(<<NA>>)
    ELSE IF IsStr(s)
         THEN LET items == SplitOn(s.v, "|")
              IN  List([i \in 1..Len(items) |-> PipeItem(items[i])])
         ELSE s

\* the lambda of lines 215-217
FormatDate(d) ==
    IF ~IsNA(d)
    THEN Str(MonthNames[d.month] \o <<" ">> \o IntToStr(d.day)
             \o <<",", " ">> \o IntToStr(d.year))
    ELSE NA

\* to_csv(na_rep='NA') for one cell: the text of the field
CsvField(x) == IF IsNA(x) THEN NA_REPR ELSE ToStr(x)

\* A file is the sequence of its data rows, a row the texts of its nine
\* fields; the quoting of the CSV format keeps every field text whole.
save_csv(table) ==
    CsvFile([i \in 1..Len(table.rows) |->
        LET r == table.rows[i] IN
        [number |-> CsvField(r.number),
         name |-> CsvField(r.name),
         birth |-> CsvField(r.birth),
         death |-> CsvField(r.death),
         term_start |-> CsvField(FormatDate(r.term_start)),
         term_end |-> CsvField(FormatDate(r.term_end)),
         party |-> CsvField(list_to_pipe_string(r.party)),
         election |-> CsvField(list_to_pipe_string(r.election)),
         vice_president |-> CsvField(list_to_pipe_string(r.vice_president))]])

\* the texts read_csv takes for a missing value: its defaults, which
\* include na_values='NA'
NaValues == {
    <<>>,
    <<"#", "N", "/", "A">>,
    <<"#", "N", "/", "A", " ", "N", "/", "A">>,
    <<"#", "N", "A">>,
    <<"-", "1", ".", "#", "I", "N", "D">>,
    <<"-", "1", ".", "#", "Q", "N", "A", "N">>,
    <<"-", "N", "a", "N">>,
    <<"-", "n", "a", "n">>,
    <<"1", ".", "#", "I", "N", "D">>,
    <<"1", ".", "#", "Q", "N", "A", "N">>,
    <<"<", "N", "A", ">">>,
    <<"N", "/", "A">>,
    <<"N", "A">>,
    <<"N", "U", "L", "L">>,
    <<"N", "a", "N">>,
    <<"N", "o", "n", "e">>,
    <<"n", "/", "a">>,
    <<"n", "a", "n">>,
    <<"n", "u", "l", "l">> }

\* read_csv gives a column a numeric dtype when every field of it that is
\* not missing spells an integer, and leaves its fields as text otherwise
IsNumericColumn(f, col) ==
    \A i \in 1..Len(f) : f[i][col] \in NaValues \/ ParseInt(f[i][col]) # NA

\* pd.read_csv(filepath, index_col=0, na_values='NA') for one field
ReadField(f, i, col) ==
    IF f[i][col] \in NaValues THEN NA
    ELSE IF IsNumericColumn(f, col) THEN ParseInt(f[i][col])
    ELSE Str(f[i][col])

\* the lambda of line 255; Raised when the cell is no list (TypeError) or an
\* element spells no integer (ValueError)
ElectionToInts(lst) ==
    IF ~IsList(lst) THEN Raised
    ELSE IF \E k \in 1..Len(lst.v) : ~IsNA(lst.v[k]) /\ to_Int64(lst.v[k]) = NA
    THEN Raised
    ELSE List([k \in 1..Len(lst.v) |-> to_Int64(lst.v[k])])

LoadRow(f, i) ==
    [number |-> ReadField(f, i, "number"),
     name |-> to_string(ReadField(f, i, "name")),
     birth |-> to_Int64(ReadField(f, i, "birth")),
     death |-> to_Int64(ReadField(f, i, "death")),
     term_start |-> to_datetime(ReadField(f, i, "term_start")),
     term_end |-> to_datetime(ReadField(f, i, "term_end")),
     party |-> pipe_string_to_list(ReadField(f, i, "party")),
     election |-> ElectionToInts(pipe_string_to_list(ReadField(f, i, "election"))),
     vice_president |-> pipe_string_to_list(ReadField(f, i, "vice_president"))]

\* Raised when a conversion raised
load_csv(filepath) ==
    LET f == filepath.rows IN
    IF \E i \in 1..Len(f) : LoadRow(f, i).election = Raised THEN Raised
    ELSE DataFrame([i \in 1..Len(f) |-> LoadRow(f, i)])

----------------------------------------------------------------------------
(* The extractors, each applied to one cell text *)

RECURSIVE Pieces(_, _, _)
\* every text made of n fragments, fragments joined by a separator
Pieces(frags, seps, n) ==
    IF n = 0 THEN {<<>>}
    ELSE IF n = 1 THEN frags
    ELSE {t \o s \o f : t \in Pieces(frags, seps, n - 1), s \in seps, f \in frags}

TextsUpTo(frags, seps, n) ==
    {NA} \cup {Str(t) : t \in UNION {Pieces(frags, seps, k) : k \in 0..n}}

PartyWords == {
    <<"X", "Y", "Z">>,
    <<"U", "n", "a", "f", "f", "i", "l", "i", "a", "t", "e", "d">>,
    <<"A", "B", "C">>,
    <<"d", "e", "m", "o", "c", "r", "a", "t", "i", "c">>,
    <<"R", "E", "P", "U", "B", "L", "I", "C", "A", "N">>,
    <<"n", "a", "t", "i", "o", "n", "a", "l">> }
PartySeps == {<<" ">>, <<" ", "-", " ">>, <<" ", " ">>}
PartyInputs == TextsUpTo(PartyWords, PartySeps, MaxPartyWords)

VPFragments == {
    <<"V", "a", "c", "a", "n", "t", " ", "t", "h", "r", "o", "u", "g", "h",
      "o", "u", "t", " ", "p", "r", "e", "s", "i", "d", "e", "n", "c", "y">>,
    <<"v", "a", "c", "a", "n", "t", " ", "a", "f", "t", "e", "r", " ">>,
    <<"T", "y", "l", "e", "r">>,
    <<"1", "8", "4", "1">>,
    <<" ">>,
    <<Nbsp>> }
VPInputs == TextsUpTo(VPFragments, {<<>>}, MaxVPParts)

\* the tokens stay short: a Python int is unbounded, a number of the model
\* is not
ElectionFragments == {
    <<"1", "7", "8", "8">>,
    <<"8", "9">>,
    <<"N", "/", "A">>,
    <<"-", "4">>,
    <<>> }
ElectionSeps == {<<" ">>, <<EnDash>>, <<Nbsp, " ">>}
ElectionInputs == TextsUpTo(ElectionFragments, ElectionSeps, MaxElectionParts)

Idle ==
    /\ raw = None /\ frozen = None /\ df = None /\ file = None /\ prev = None
    /\ update = None /\ save = None /\ trace = None

IdleUnchanged == UNCHANGED <<raw, frozen, df, file, prev, update, save, trace>>

InitParties == pc = "start" /\ arg \in PartyInputs /\ ret = None /\ Idle
InitVice == pc = "start" /\ arg \in VPInputs /\ ret = None /\ Idle
InitElection == pc = "start" /\ arg \in ElectionInputs /\ ret = None /\ Idle

ExtractParties ==
    /\ pc = "start"
    /\ ret' = extract_parties(arg)
    /\ pc' = "done"
    /\ UNCHANGED arg /\ IdleUnchanged

ExtractVicePresidents ==
    /\ pc = "start"
    /\ ret' = extract_vice_presidents(arg)
    /\ pc' = "done"
    /\ UNCHANGED arg /\ IdleUnchanged

ExtractElectionDates ==
    /\ pc = "start"
    /\ ret' = extract_election_dates(arg)
    /\ pc' = "done"
    /\ UNCHANGED arg /\ IdleUnchanged

SpecParties == InitParties /\ [][ExtractParties]_vars
SpecVice == InitVice /\ [][ExtractVicePresidents]_vars
SpecElection == InitElection /\ [][ExtractElectionDates]_vars

----------------------------------------------------------------------------
(* Properties of the extractors *)

\* the tokens extract_parties walks over
PartyTokens(text) == Split(Title(Strip(CollapseSpace(TightenHyphens(text)))))

\* tok is one of the words of some recognized party name
IsPartyWord(tok) == \E p \in RECOGNIZED_PARTIES : tok \in Range(Split(p))

\* C4: a recognized party name that follows only unrecognized tokens (and is
\* not the start of a longer recognized name) is emitted by extract_parties.
C4_LaterMatchKept ==
    (pc = "done" /\ IsStr(arg)) =>
        LET toks == PartyTokens(arg.v) IN
        \A i \in 1..Len(toks) : \A j \in i..Len(toks) :
            LET name == Join(<<" ">>, SubSeq(toks, i, j)) IN
            ( /\ \A k \in 1..(i - 1) : ~IsPartyWord(toks[k])
              /\ name \in RECOGNIZED_PARTIES
              /\ (j < Len(toks) =>
                    Join(<<" ">>, SubSeq(toks, i, j + 1)) \notin RECOGNIZED_PARTIES) )
            => Str(name) \in Range(ret.v)

\* C9: every element extract_parties returns is a member of
\* RECOGNIZED_PARTIES.
C9_ClosedVocabulary ==
    (pc = "done" /\ IsList(ret)) =>
        \A i \in 1..Len(ret.v) : ret.v[i].v \in RECOGNIZED_PARTIES

\* extract_parties returned a party for a text that also holds a token of no
\* party name
C9_Witness ==
    /\ pc = "done" /\ IsStr(arg) /\ IsList(ret) /\ Len(ret.v) >= 1
    /\ \E k \in 1..Len(PartyTokens(arg.v)) : ~IsPartyWord(PartyTokens(arg.v)[k])

\* C7: every element extract_vice_presidents returns is trimmed and
\* non-empty.
C7_TrimmedNonEmpty ==
    (pc = "done" /\ IsList(ret)) =>
        \A i \in 1..Len(ret.v) :
            /\ ret.v[i].v # <<>>
            /\ ~IsSpace(ret.v[i].v[1])
            /\ ~IsSpace(ret.v[i].v[Len(ret.v[i].v)])

\* the positions where a whitespace-separated token of s starts
TokenStarts(s) ==
    {i \in 1..Len(s) : ~IsSpace(s[i]) /\ (i = 1 \/ IsSpace(s[i - 1]))}

\* the n-th smallest member of a set of numbers
Nth(S, n) == CHOOSE x \in S : Cardinality({y \in S : y < x}) = n - 1

\* the last position of the token of s that starts at i, cut before the
\* first en dash of the token
HeadEnd(s, i) ==
    CHOOSE e \in (i - 1)..Len(s) :
        /\ \A k \in i..e : ~IsSpace(s[k]) /\ s[k] # EnDash
        /\ (e = Len(s) \/ IsSpace(s[e + 1]) \/ s[e + 1] = EnDash)

\* C8: extract_election_dates returns one entry per whitespace-separated
\* token, in order: the integer the token (cut before its first en dash)
\* spells, null when it spells none.
C8_OneEntryPerToken ==
    (pc = "done" /\ IsStr(arg)) =>
        LET s == arg.v
            starts == TokenStarts(s)
        IN  /\ IsList(ret)
            /\ Len(ret.v) = Cardinality(starts)
            /\ \A n \in 1..Cardinality(starts) :
                 LET head == SubSeq(s, Nth(starts, n), HeadEnd(s, Nth(starts, n)))
                     body == IF head # <<>> /\ head[1] \in {"+", "-"}
                             THEN Tail(head) ELSE head
                     neg == head # <<>> /\ head[1] = "-"
                 IN  IF AllDigits(body)
                     THEN ret.v[n] = Num(IF neg THEN 0 - DigitsValue(body)
                                         ELSE DigitsValue(body))
                     ELSE ret.v[n] = NA

\* a year range was cut to its start year next to a token that is no number
C8_Witness ==
    /\ pc = "done" /\ IsStr(arg) /\ IsList(ret)
    /\ EnDash \in Range(arg.v)
    /\ \E i, j \in 1..Len(ret.v) : ret.v[i] = Num(1788) /\ ret.v[j] = NA

----------------------------------------------------------------------------
(* The list codec: encode a list, decode the string *)

CodecItems == {
    NA,
    Str(<<"A">>),
    Str(<<"B">>),
    Str(<<"N", "A">>),
    Str(<<"A", "|", "B">>),
    Str(<<" ", "A">>),
    Num(1789) }

RECURSIVE ListsOf(_, _)
ListsOf(items, n) ==
    IF n = 0 THEN {<<>>}
    ELSE {Append(l, x) : l \in ListsOf(items, n - 1), x \in items}

CodecInputs == {List(l) : l \in UNION {ListsOf(CodecItems, n) : n \in 0..MaxListLen}}

InitCodec == pc = "start" /\ arg \in CodecInputs /\ ret = None /\ Idle

Encode ==
    /\ pc = "start"
    /\ ret' = list_to_pipe_string(arg)
    /\ pc' = "encoded"
    /\ UNCHANGED arg /\ IdleUnchanged

Decode ==
    /\ pc = "encoded"
    /\ ret' = pipe_string_to_list(ret)
    /\ pc' = "done"
    /\ UNCHANGED arg /\ IdleUnchanged

SpecCodec == InitCodec /\ [][Encode \/ Decode]_vars

\* C2: decoding the encoding of a non-empty list of nulls and strings gives
\* the list back.
C2_CodecReversible ==
    ( /\ pc = "done"
      /\ arg.v # <<>>
      /\ \A i \in 1..Len(arg.v) : IsNA(arg.v[i]) \/ IsStr(arg.v[i]) )
    => ret = arg

----------------------------------------------------------------------------
(* Clean, then save and load again and again *)

Adams_1735_1826 ==
    <<"A", "d", "a", "m", "s", " ", "(", "1", "7", "3", "5", EnDash,
      "1", "8", "2", "6", ")">>
Biden_b_1942 ==
    <<"B", "i", "d", "e", "n", "[", "a", "]", " ", "(", "b", ".", " ",
      "1", "9", "4", "2", ")">>
NoParens == <<"n", "o", " ", "p", "a", "r", "e", "n", "s">>
Term_1797_1801 ==
    <<"M", "a", "r", "c", "h", " ", "4", ",", " ", "1", "7", "9", "7", " ",
      EnDash, " ", "M", "a", "r", "c", "h", " ", "4", ",", " ", "1", "8", "0", "1">>
Term_2021_Incumbent ==
    <<"J", "a", "n", "u", "a", "r", "y", " ", "2", "0", ",", " ",
      "2", "0", "2", "1", EnDash, "I", "n", "c", "u", "m", "b", "e", "n", "t">>
NoTerm == <<"1", "7", "9", "7">>

\* the name/birth/death cell and the term cell of a raw row
RawPersons == {
    <<Str(Adams_1735_1826), Str(Term_1797_1801)>>,
    <<Str(Biden_b_1942), Str(Term_2021_Incumbent)>>,
    <<Str(NoParens), Str(NoTerm)>>,
    <<NA, Str(Term_1797_1801)>>,
    <<Str(Adams_1735_1826), NA>> }

RawParties == {
    Str(<<"F", "e", "d", "e", "r", "a", "l", "i", "s", "t", "[", "b", "]">>),
    NA }

RawElections == {
    Str(<<"1", "7", "8", "8", EnDash, "8", "9", " ", "1", "7", "9", "2">>),
    Str(<<"1", "7", "8", "9">>),
    NA }

RawVicePresidents == {
    Str(<<"T", "y", "l", "e", "r">>),
    Str(<<"N", "A">>),
    Str(<<"0">>),
    NA }

RawRow(n, person, party, election, vp) ==
    <<Num(n), NA, person[1], person[2], NA, party, election, vp>>

RECURSIVE RawTables(_)
\* every raw row-set of n rows, numbered 1..n
RawTables(n) ==
    IF n = 0 THEN {<<>>}
    ELSE {Append(t, RawRow(n, p, q, e, v)) :
            t \in RawTables(n - 1), p \in RawPersons, q \in RawParties,
            e \in RawElections, v \in RawVicePresidents}

RawInputs == UNION {RawTables(n) : n \in 1..MaxRows}

InitTable ==
    /\ pc = "start" /\ raw \in RawInputs
    /\ df = None /\ file = None /\ prev = None /\ trace = <<>>
    /\ arg = None /\ ret = None /\ frozen = None /\ update = None /\ save = None

TableUnchanged == UNCHANGED <<arg, ret, raw, frozen, update, save>>

\* df = clean_presidents_df(raw)
Clean ==
    /\ pc = "start"
    /\ df' = clean_presidents_df(raw)
    /\ pc' = IF clean_presidents_df(raw) = Raised THEN "raised" ELSE "table"
    /\ trace' = Append(trace, "clean")
    /\ UNCHANGED <<file, prev>> /\ TableUnchanged

Cycles == Cardinality({i \in 1..Len(trace) : trace[i] = "load"})

\* save_csv(df, ...)
Save ==
    /\ pc = "table"
    /\ Cycles < MaxCycles
    /\ file' = save_csv(df)
    /\ pc' = "saved"
    /\ trace' = Append(trace, "save")
    /\ UNCHANGED <<df, prev>> /\ TableUnchanged

\* df = load_csv(file)
Load ==
    /\ pc = "saved"
    /\ prev' = df
    /\ df' = load_csv(file)
    /\ pc' = IF load_csv(file) = Raised THEN "raised" ELSE "table"
    /\ trace' = Append(trace, "load")
    /\ UNCHANGED file /\ TableUnchanged

SpecTable == InitTable /\ [][Clean \/ Save \/ Load]_vars

ListColumns == {"party", "election", "vice_president"}
ScalarColumns == {"number", "name", "birth", "death", "term_start", "term_end"}

\* b is a with, at most, empty lists replaced by [null]
SameButEmptyLists(a, b) ==
    /\ b # Raised
    /\ Len(b.rows) = Len(a.rows)
    /\ \A i \in 1..Len(a.rows) :
        /\ \A c \in ScalarColumns : b.rows[i][c] = a.rows[i][c]
        /\ \A c \in ListColumns :
            \/ b.rows[i][c] = a.rows[i][c]
            \/ a.rows[i][c] = List(<<>>) /\ b.rows[i][c] = List(<<NA>>)

\* C1: the table loaded from the saved file of a cleaned table equals the
\* cleaned table field by field, an empty list coming back as [null].
C1_RoundTrip ==
    (trace = <<"clean", "save", "load">>) => SameButEmptyLists(prev, df)

\* C3: from the second save/load cycle on, the loaded table is the table
\* that was saved.
C3_Idempotent ==
    (Cycles >= 2 /\ trace[Len(trace)] = "load") => df = prev

\* the field of raw row i whose extraction failed is null in cleaned row i
FailedFieldsNull(i) ==
    /\ (~IsStr(raw[i][3]) \/ NameEnd(remove_footnotes(raw[i][3]).v, 1) = 0)
          => df.rows[i].name = NA /\ df.rows[i].birth = NA /\ df.rows[i].death = NA
    /\ (~IsStr(raw[i][4]) \/ Len(DashSplit(remove_footnotes(raw[i][4]).v)) # 2)
          => df.rows[i].term_start = NA /\ df.rows[i].term_end = NA

\* C5: cleaning raises no error, returns one row per raw row, and leaves a
\* field null whose name/birth/death or term cell is missing or misshaped.
C5_NeverAborts ==
    (trace = <<"clean">>) =>
        /\ df # Raised
        /\ Len(df.rows) = Len(raw)
        /\ \A i \in 1..Len(raw) : FailedFieldsNull(i)

\* C6: after cleaning, party, election and vice_president are lists in
\* every row.
C6_ListsNeverNull ==
    (trace = <<"clean">> /\ df # Raised) =>
        \A i \in 1..Len(df.rows) : \A c \in ListColumns : IsList(df.rows[i][c])

----------------------------------------------------------------------------
(* fetch *)

\* the row-sets the page can hold
WebTables == {t \in RawTables(1) : t[1][7] = NA}

GoodRaw ==
    <<RawRow(1, <<Str(Adams_1735_1826), Str(Term_1797_1801)>>,
             Str(<<"W", "h", "i", "g">>),
             Str(<<"1", "7", "8", "8", EnDash, "8", "9", " ", "1", "7", "9", "2">>),
             Str(<<"T", "y", "l", "e", "r">>))>>
OneYearRaw ==
    <<RawRow(1, <<Str(Biden_b_1942), Str(Term_2021_Incumbent)>>,
             NA, Str(<<"1", "7", "8", "9">>), NA)>>

\* what is behind FROZEN_CSV_URL: nothing that can be read (None), or a
\* file save_csv wrote
FrozenFiles ==
    {None, save_csv(clean_presidents_df(GoodRaw)),
     save_csv(clean_presidents_df(OneYearRaw))}

Call(name, ok) == [call |-> name, ok |-> ok]

InitFetch ==
    /\ pc = "fetch"
    /\ arg \in [update : BOOLEAN, save : BOOLEAN]
    /\ update = arg.update /\ save = arg.save
    /\ frozen \in FrozenFiles
    /\ raw \in WebTables
    /\ df = None /\ file = None /\ prev = None /\ ret = None /\ trace = <<>>

FetchUnchanged == UNCHANGED <<arg, raw, frozen, prev, save>>

\* line 290 inside the try of line 288
FetchLoad ==
    /\ pc = "fetch" /\ ~update
    /\ LET loaded == IF frozen = None THEN Raised ELSE load_csv(frozen) IN
       /\ trace' = Append(trace, Call("load_csv", loaded # Raised))
       /\ IF loaded = Raised
          THEN pc' = "except" /\ UNCHANGED df
          ELSE df' = loaded /\ pc' = IF save THEN "save_frozen" ELSE "return"
    /\ UNCHANGED <<ret, file, update>> /\ FetchUnchanged

\* line 292, still inside the try: writing the file succeeds or raises
FetchSaveFrozen ==
    /\ pc = "save_frozen"
    /\ \E ok \in BOOLEAN :
        /\ trace' = Append(trace, Call("save_csv", ok))
        /\ IF ok THEN file' = save_csv(df) /\ pc' = "return"
                 ELSE pc' = "except" /\ UNCHANGED file
    /\ UNCHANGED <<ret, df, update>> /\ FetchUnchanged

\* lines 294-296
FetchExcept ==
    /\ pc = "except"
    /\ trace' = Append(trace, Call("warning", TRUE))
    /\ update' = TRUE
    /\ pc' = "fetch"
    /\ UNCHANGED <<ret, df, file>> /\ FetchUnchanged

\* lines 298-301: reading the page succeeds or raises
FetchScrape ==
    /\ pc = "fetch" /\ update
    /\ \E ok \in BOOLEAN :
        IF ~ok
        THEN /\ trace' = Append(trace, Call("read_html", FALSE))
             /\ pc' = "raised" /\ UNCHANGED df
        ELSE LET df_clean == clean_presidents_df(raw) IN
             /\ trace' = trace \o <<Call("read_html", TRUE),
                                    Call("clean_presidents_df", df_clean # Raised)>>
             /\ IF df_clean = Raised
                THEN pc' = "raised" /\ UNCHANGED df
                ELSE df' = df_clean /\ pc' = IF save THEN "save_clean" ELSE "return"
    /\ UNCHANGED <<ret, file, update>> /\ FetchUnchanged

\* line 303
FetchSaveClean ==
    /\ pc = "save_clean"
    /\ \E ok \in BOOLEAN :
        /\ trace' = Append(trace, Call("save_csv", ok))
        /\ IF ok THEN file' = save_csv(df) /\ pc' = "return"
                 ELSE pc' = "raised" /\ UNCHANGED file
    /\ UNCHANGED <<ret, df, update>> /\ FetchUnchanged

\* lines 293 and 304
FetchReturn ==
    /\ pc = "return"
    /\ ret' = df
    /\ pc' = "done"
    /\ UNCHANGED <<df, file, update, trace>> /\ FetchUnchanged

NextFetch ==
    \/ FetchLoad \/ FetchSaveFrozen \/ FetchExcept
    \/ FetchScrape \/ FetchSaveClean \/ FetchReturn

SpecFetch == InitFetch /\ [][NextFetch]_vars

Calls(name) == {i \in 1..Len(trace) : trace[i].call = name}

\* C10: fetch(update=False) whose load_csv succeeded never scrapes and
\* attempts save_csv at most once.
C10_ScrapeOnlyWhenLoadFailed ==
    (~arg.update /\ Call("load_csv", TRUE) \in Range(trace)) =>
        /\ Calls("read_html") = {}
        /\ Calls("clean_presidents_df") = {}
        /\ Cardinality(Calls("save_csv")) <= 1

====
